---- MODULE Spec2Model ----
(***************************************************************************)
(* A model of aider/models.py: the Model constructor (environment check,   *)
(* model info, settings cascade, weak model), the image token cost and     *)
(* the fuzzy model-name matcher.                                           *)
(***************************************************************************)
EXTENDS Integers, Sequences, FiniteSets, TLC

VARIABLES
    img,          \* the image whose token cost is computed, and the result
    threads,      \* per thread: the Model(...) call in progress, its objects
    classAttrs,   \* the attributes of class Model (shared by every instance)
    registry,     \* the module-level list MODEL_SETTINGS (shared)
    sug           \* the name looked up in litellm.model_cost, and the result

vars == <<img, threads, classAttrs, registry, sug>>

(***************************************************************************)
(* IEEE-754 binary64 arithmetic, as far as token_count_for_image uses it.  *)
(* A positive double is [e |-> the exponent of its leading bit, m |-> its  *)
(* 53-bit significand]: the leading bit m[1] = 1 followed by four limbs of *)
(* 13 bits, most significant first.  Its value is                          *)
(*   (m[1]*2^52 + m[2]*2^39 + m[3]*2^26 + m[4]*2^13 + m[5]) * 2^(e - 52).  *)
(* Every operation rounds to nearest, ties to even, as the hardware does.  *)
(* Limbs keep every intermediate product below 2^31.                       *)
(***************************************************************************)
LimbBits == 13
NumLimbs == 4
FracBits == LimbBits * NumLimbs

RECURSIVE Pow2(_)
Pow2(k) == IF k = 0 THEN 1 ELSE 2 * Pow2(k - 1)

LimbBase == Pow2(LimbBits)

\* Largest k with d * 2^k <= n, for n >= d > 0.
RECURSIVE Log2Quot(_, _)
Log2Quot(n, d) == IF 2 * d <= n THEN 1 + Log2Quot(n, 2 * d) ELSE 0

\* Smallest k with n * 2^k >= d, for 0 < n < d.
RECURSIVE Log2Up(_, _)
Log2Up(n, d) == IF n >= d THEN 0 ELSE 1 + Log2Up(2 * n, d)

\* The exponent of the quotient n / d: the e with 2^e <= n/d < 2^(e+1).
QuotExp(n, d) == IF n >= d THEN Log2Quot(n, d) ELSE 0 - Log2Up(n, d)

\* Add one unit in the last place of limbs 1..i; a carry runs upward.
RECURSIVE IncLimbs(_, _)
IncLimbs(m, i) ==
    IF i = 1 THEN [m EXCEPT ![1] = m[1] + 1]
    ELSE IF m[i] + 1 < LimbBase THEN [m EXCEPT ![i] = m[i] + 1]
    ELSE IncLimbs([m EXCEPT ![i] = 0], i - 1)

\* Round a significand up: on a carry out of the leading bit the value is
\* the next power of two.
RoundUp(e, m) ==
    LET r == IncLimbs(m, Len(m))
    IN IF r[1] = 2
       THEN [e |-> e + 1, m |-> [r EXCEPT ![1] = 1]]
       ELSE [e |-> e, m |-> r]

\* Long division: the next k bits of rem / den, for 0 <= rem < den.
RECURSIVE DivBits(_, _, _, _)
DivBits(rem, den, q, k) ==
    IF k = 0 THEN [q |-> q, rem |-> rem]
    ELSE IF 2 * rem >= den
    THEN DivBits(2 * rem - den, den, 2 * q + 1, k - 1)
    ELSE DivBits(2 * rem, den, 2 * q, k - 1)

\* Long division: the next k limbs of rem / den, for 0 <= rem < den.
RECURSIVE DivLimbs(_, _, _, _)
DivLimbs(rem, den, m, k) ==
    IF k = 0 THEN [m |-> m, rem |-> rem]
    ELSE LET l == DivBits(rem, den, 0, LimbBits)
         IN DivLimbs(l.rem, den, Append(m, l.q), k - 1)

\* n / d of two positive integers (Python's true division): the double
\* nearest to the exact quotient.
FloatDiv(n, d) ==
    LET e   == QuotExp(n, d)
        num == IF e < 0 THEN n * Pow2(0 - e) ELSE n
        den == IF e < 0 THEN d ELSE d * Pow2(e)
        q   == DivLimbs(num - den, den, <<1>>, NumLimbs)
        up  == \/ 2 * q.rem > den
               \/ 2 * q.rem = den /\ q.m[NumLimbs + 1] % 2 = 1
    IN IF up THEN RoundUp(e, q.m) ELSE [e |-> e, m |-> q.m]

\* m * x limb by limb from the last limb up, carrying; the leading entry of
\* the result holds x plus the carry into it.
RECURSIVE MulLimbs(_, _, _, _)
MulLimbs(m, x, i, carry) ==
    LET v == m[i] * x + carry
    IN IF i = 1 THEN [m EXCEPT ![1] = v]
       ELSE IF v < LimbBase
       THEN MulLimbs([m EXCEPT ![i] = v], x, i - 1, 0)
       ELSE MulLimbs([m EXCEPT ![i] = v % LimbBase], x, i - 1, v \div LimbBase)

\* The number of bits of a positive integer.
RECURSIVE BitLength(_)
BitLength(x) == IF x = 0 THEN 0 ELSE 1 + BitLength(x \div 2)

\* The limbs shifted right by s bits (0 <= s <= LimbBits).
ShiftRight(m, s) ==
    [i \in 1..Len(m) |->
        IF i = 1 THEN m[1] \div Pow2(s)
        ELSE (m[i - 1] % Pow2(s)) * Pow2(LimbBits - s) + m[i] \div Pow2(s)]

\* x * f of a positive integer x < 2^13 and a double f: the integer converts
\* exactly, and the product is the double nearest to the exact product.
FloatMulInt(x, f) ==
    LET p    == MulLimbs(f.m, x, Len(f.m), 0)
        s    == BitLength(p[1]) - 1
        kept == ShiftRight(p, s)
        rest == p[Len(p)] % Pow2(s)
        half == IF s = 0 THEN 1 ELSE Pow2(s - 1)
        up   == \/ rest > half
                \/ rest = half /\ kept[Len(kept)] % 2 = 1
    IN IF up THEN RoundUp(f.e + s, kept) ELSE [e |-> f.e + s, m |-> kept]

\* The value of limbs 1..i as an integer.
RECURSIVE LimbsInt(_, _)
LimbsInt(m, i) ==
    IF i = 1 THEN m[1] ELSE LimbsInt(m, i - 1) * LimbBase + m[i]

\* The split of a double with f.e >= 0 at its binary point: whole limbs
\* dropped, bits dropped from the limbs kept.
DropLimbs(f) == (FracBits - f.e) \div LimbBits
DropBits(f) == (FracBits - f.e) % LimbBits

\* int(f): truncation toward zero.
FloatTrunc(f) ==
    IF f.e < 0 THEN 0
    ELSE LimbsInt(f.m, Len(f.m) - DropLimbs(f)) \div Pow2(DropBits(f))

\* math.ceil(f)
FloatCeil(f) ==
    LET keep == Len(f.m) - DropLimbs(f)
        frac == \/ f.e < 0
                \/ \E i \in (keep + 1)..Len(f.m) : f.m[i] # 0
                \/ LimbsInt(f.m, keep) % Pow2(DropBits(f)) # 0
    IN FloatTrunc(f) + (IF frac THEN 1 ELSE 0)

\* int(x * scale_factor)
ScaleDim(x, scale_factor) ==
    IF x = 0 THEN 0 ELSE FloatTrunc(FloatMulInt(x, scale_factor))

\* math.ceil(x / 512)
TilesFor(x) == IF x = 0 THEN 0 ELSE FloatCeil(FloatDiv(x, 512))

Max(a, b) == IF a >= b THEN a ELSE b
Min(a, b) == IF a <= b THEN a ELSE b

\* Lines 285-289: scale down to fit within 2048 x 2048.
FitWithin(width, height) ==
    LET max_dimension == Max(width, height)
    IN IF max_dimension > 2048
       THEN LET scale_factor == FloatDiv(2048, max_dimension)
            IN [width  |-> ScaleDim(width, scale_factor),
                height |-> ScaleDim(height, scale_factor)]
       ELSE [width |-> width, height |-> height]

\* Lines 285-304 of token_count_for_image, from the size of the image on.
TokenCountForImage(width, height) ==
    LET fit == FitWithin(width, height)
        min_dimension == Min(fit.width, fit.height)
    IN IF min_dimension = 0
       THEN [raised |-> "ZeroDivisionError", value |-> 0]
       ELSE LET scale_factor == FloatDiv(768, min_dimension)
                w2 == ScaleDim(fit.width, scale_factor)
                h2 == ScaleDim(fit.height, scale_factor)
                num_tiles == TilesFor(w2) * TilesFor(h2)
            IN [raised |-> "none", value |-> num_tiles * 170 + 85]


(***************************************************************************)
(* Python values.  None and False are encoded as reserved strings that are *)
(* no model name; a dict is a set of <<key, value>> pairs; an object is    *)
(* its instance dictionary, a function from attribute names to values.     *)
(***************************************************************************)
None == "<None>"
False == "<False>"

\* Python truthiness of an optional string.
Truthy(v) == v \notin {None, False, ""}

\* sub in s, for strings.
Contains(s, sub) ==
    \E i \in 1..(Len(s) - Len(sub) + 1) : SubSeq(s, i, i + Len(sub) - 1) = sub

\* d.get(key, default)
DictGet(d, key, default) ==
    IF \E p \in d : p[1] = key
    THEN (CHOOSE p \in d : p[1] = key)[2]
    ELSE default

\* The dataclass ModelSettings with its field defaults.
ModelSettings(name, edit_format, weak, repo_map, undo_reply, images) ==
    [name |-> name, edit_format |-> edit_format, weak_model_name |-> weak,
     use_repo_map |-> repo_map, send_undo_reply |-> undo_reply,
     accepts_images |-> images]

\* fields(ModelSettings), in declaration order.
ModelSettingsFields ==
    <<"name", "edit_format", "weak_model_name", "use_repo_map",
      "send_undo_reply", "accepts_images">>

MODEL_SETTINGS ==
    << ModelSettings("gpt-3.5-turbo-0125", "whole", "gpt-3.5-turbo",
                     FALSE, FALSE, FALSE),
       ModelSettings("gpt-3.5-turbo-1106", "whole", "gpt-3.5-turbo",
                     FALSE, FALSE, FALSE),
       ModelSettings("gpt-3.5-turbo-0613", "whole", "gpt-3.5-turbo",
                     FALSE, FALSE, FALSE),
       ModelSettings("gpt-3.5-turbo-16k-0613", "whole", "gpt-3.5-turbo",
                     FALSE, FALSE, FALSE),
       ModelSettings("gpt-4-turbo-2024-04-09", "udiff", "gpt-3.5-turbo",
                     TRUE, TRUE, TRUE),
       ModelSettings("gpt-4-turbo", "udiff", "gpt-3.5-turbo",
                     TRUE, TRUE, TRUE),
       ModelSettings("gpt-4-0125-preview", "udiff", "gpt-3.5-turbo",
                     TRUE, TRUE, FALSE),
       ModelSettings("gpt-4-1106-preview", "udiff", "gpt-3.5-turbo",
                     TRUE, TRUE, FALSE),
       ModelSettings("gpt-4-vision-preview", "diff", "gpt-3.5-turbo",
                     TRUE, TRUE, TRUE),
       ModelSettings("gpt-4-0613", "diff", "gpt-3.5-turbo",
                     TRUE, TRUE, FALSE),
       ModelSettings("gpt-4-32k-0613", "diff", "gpt-3.5-turbo",
                     TRUE, TRUE, FALSE),
       ModelSettings("claude-3-opus-20240229", "diff",
                     "claude-3-haiku-20240307", TRUE, TRUE, FALSE),
       ModelSettings("claude-3-sonnet-20240229", "whole",
                     "claude-3-haiku-20240307", FALSE, FALSE, FALSE),
       ModelSettings("command-r-plus", "whole", "command-r-plus",
                     TRUE, TRUE, FALSE),
       ModelSettings("groq/llama3-70b-8192", "diff", "groq/llama3-8b-8192",
                     TRUE, TRUE, FALSE) >>

\* The class attributes of Model (lines 156-165); weak_model holds an
\* object reference, with 0 for None.
NoRef == 0

ModelClassAttrs ==
    [name |-> None, edit_format |-> "whole", use_repo_map |-> FALSE,
     send_undo_reply |-> FALSE, accepts_images |-> FALSE,
     weak_model_name |-> None, max_chat_history_tokens |-> 1024,
     weak_model |-> NoRef]

\* An object just allocated: no instance attributes yet.
EmptyInstance == [a \in {} |-> None]

\* A view w = [self |-> instance dictionary, cls |-> class attributes].
\* getattr(self, a): the instance attribute, else the class attribute.
GetAttr(w, a) == IF a \in DOMAIN w.self THEN w.self[a] ELSE w.cls[a]

\* A slip that assigns on the class (Model.a = v) instead of on self.
SetAttrOnClass(w, a, v) == [w EXCEPT !.cls = (a :> v) @@ w.cls]

\* self.a = v, setattr(self, a, v)
SetAttr(w, a, v) == [w EXCEPT !.self = (a :> v) @@ w.self]

\* setattr(self, field.name, getattr(ms, field.name)) for fields 1..n
RECURSIVE CopyFields(_, _, _)
CopyFields(w, ms, n) ==
    IF n = 0 THEN w
    ELSE SetAttr(CopyFields(w, ms, n - 1),
                 ModelSettingsFields[n], ms[ModelSettingsFields[n]])

\* The three assignments of each pattern rule (lines 214-216, 220-222,
\* 226-228).
ApplyRule(w, edit_format) ==
    SetAttr(SetAttr(SetAttr(w, "edit_format", edit_format),
                    "use_repo_map", TRUE),
            "send_undo_reply", TRUE)

\* A slip that tries the gpt-4-turbo rule before the llama3 rule.
PatternRulesTurboFirst(w, model) ==
    IF \/ Contains(model, "gpt-4-turbo")
       \/ Contains(model, "gpt-4-") /\ Contains(model, "-preview")
    THEN ApplyRule(w, "udiff")
    ELSE IF Contains(model, "llama3") /\ Contains(model, "70b")
    THEN ApplyRule(w, "diff")
    ELSE IF \/ Contains(model, "gpt-4")
            \/ Contains(model, "claude-2")
            \/ Contains(model, "claude-3-opus")
    THEN ApplyRule(w, "diff")
    ELSE IF GetAttr(w, "edit_format") = "diff"
    THEN SetAttr(w, "use_repo_map", TRUE)
    ELSE w

\* Lines 213-233: the pattern rules, tried when no preset matched.
PatternRules(w, model) ==
    IF Contains(model, "llama3") /\ Contains(model, "70b")
    THEN ApplyRule(w, "diff")
    ELSE IF \/ Contains(model, "gpt-4-turbo")
            \/ Contains(model, "gpt-4-") /\ Contains(model, "-preview")
    THEN ApplyRule(w, "udiff")
    ELSE IF \/ Contains(model, "gpt-4")
            \/ Contains(model, "claude-2")
            \/ Contains(model, "claude-3-opus")
    THEN ApplyRule(w, "diff")
    ELSE IF GetAttr(w, "edit_format") = "diff"
    THEN SetAttr(w, "use_repo_map", TRUE)
    ELSE w

\* A slip that tries the pattern rules before the presets.
RulesBeforePresets(w, settings, model) ==
    LET r == PatternRules(w, model)
    IN IF r # w THEN r
       ELSE IF \E i \in 1..Len(settings) : settings[i].name = model
       THEN CopyFields(w, settings[CHOOSE i \in 1..Len(settings) :
                                     settings[i].name = model],
                       Len(ModelSettingsFields))
       ELSE w

\* Model.configure_model_settings (lines 204-233): the first preset whose
\* name is the model, else the pattern rules.
ConfigureModelSettings(w, settings, model) ==
    LET hits == {i \in 1..Len(settings) : settings[i].name = model}
    IN IF hits # {}
       THEN CopyFields(w, settings[CHOOSE i \in hits :
                                     \A j \in hits : i <= j],
                       Len(ModelSettingsFields))
       ELSE PatternRules(w, model)

(***************************************************************************)
(* One Model(...) call: c is the call's context.                           *)
(*   outcome  "idle", "running", "returned", or the exception raised       *)
(*   args     the caller's arguments                                       *)
(*   heap     the Model objects allocated, by reference 1, 2, ...          *)
(*   stack    the __init__ frames: the requested model's, then the weak    *)
(*            model's while get_weak_model constructs it                   *)
(*   log      the answers litellm gave, in the order they were asked       *)
(*   printed  the models named by the diagnostic of line 183               *)
(*   message  the missing keys listed by ModelEnvironmentError             *)
(*   steps    the number of steps taken                                    *)
(***************************************************************************)
NoArgs ==
    [model |-> None, weak_model |-> None, require_model_info |-> TRUE,
     validate_environment |-> TRUE]

IdleCall ==
    [outcome |-> "idle", args |-> NoArgs, heap |-> <<>>, stack |-> <<>>,
     log |-> <<>>, printed |-> <<>>, message |-> <<>>, steps |-> 0]

Frame(self, a) ==
    [self |-> self, model |-> a.model, weak_model |-> a.weak_model,
     require_model_info |-> a.require_model_info,
     validate_environment |-> a.validate_environment, pc |-> "validate"]

\* Model(...): allocate the object and enter __init__.
Construct(c, a) ==
    [c EXCEPT !.heap = Append(@, EmptyInstance),
              !.stack = Append(@, Frame(Len(c.heap) + 1, a))]

Top(c) == c.stack[Len(c.stack)]

View(c, cls) == [self |-> c.heap[Top(c).self], cls |-> cls]

\* The context and the class after the running frame's statements left the
\* view w, with the frame now at pc.
Advance(c, w, pc) ==
    [c   |-> [c EXCEPT !.heap[Top(c).self] = w.self,
                       !.stack[Len(c.stack)].pc = pc,
                       !.steps = @ + 1],
     cls |-> w.cls]

\* An exception no frame catches: it unwinds every __init__ of the call.
Raise(c, w, exception, message) ==
    [c   |-> [c EXCEPT !.heap[Top(c).self] = w.self,
                       !.stack = <<>>,
                       !.outcome = exception,
                       !.message = message,
                       !.steps = @ + 1],
     cls |-> w.cls]

Logged(c, kind, ans) ==
    [c EXCEPT !.log = Append(@, [kind |-> kind, model |-> Top(c).model,
                                 answer |-> ans])]

\* Lines 168-183: self.name, then litellm.validate_environment(model).
ValidateEnvironment(c, cls, ans) ==
    LET f  == Top(c)
        w  == SetAttr(View(c, cls), "name", f.model)
        c1 == Logged(c, "validate_environment", ans)
    IN IF ans.missing_keys # <<>>
       THEN IF f.validate_environment
            THEN Raise(c1, w, "ModelEnvironmentError", ans.missing_keys)
            ELSE Advance(c1, w, "model_info")
       ELSE IF ~ans.keys_in_environment
       THEN Advance([c1 EXCEPT !.printed = Append(@, f.model)], w,
                    "model_info")
       ELSE Advance(c1, w, "model_info")

\* Lines 185-196: litellm.get_model_info(model), max_chat_history_tokens.
GetModelInfo(c, cls, ans) ==
    LET f  == Top(c)
        c1 == Logged(c, "get_model_info", ans)
        w0 == View(c, cls)
    IN IF ans.raises /\ f.require_model_info
       THEN Raise(c1, w0, "NoModelInfo", <<>>)
       ELSE LET w1 == SetAttr(w0, "info",
                              IF ans.raises THEN {} ELSE ans.info)
                w2 == IF DictGet(GetAttr(w1, "info"),
                                 "max_input_tokens", 0) < 32 * 1024
                      THEN SetAttr(w1, "max_chat_history_tokens", 1024)
                      ELSE SetAttr(w1, "max_chat_history_tokens", 2 * 1024)
            IN Advance(c1, w2, "configure")

\* Line 198: self.configure_model_settings(model).
Configure(c, cls, settings) ==
    Advance(c, ConfigureModelSettings(View(c, cls), settings, Top(c).model),
            "weak")

\* __init__ returns: the call is over, or the caller's get_weak_model
\* stores the new object in self.weak_model (line 251) and returns in turn.
RECURSIVE Return(_, _)
Return(c, cls) ==
    LET n == Len(c.stack)
    IN IF n = 1
       THEN [c |-> [c EXCEPT !.stack = <<>>, !.outcome = "returned"],
             cls |-> cls]
       ELSE LET caller == c.stack[n - 1]
                w == SetAttr([self |-> c.heap[caller.self], cls |-> cls],
                             "weak_model", c.stack[n].self)
            IN Return([c EXCEPT !.heap[caller.self] = w.self,
                                !.stack = SubSeq(c.stack, 1, n - 1)],
                      w.cls)

\* A slip that lets the weak model resolve a weak model of its own.
WeakModelArgsRecursing(weak_model_name, require_model_info) ==
    [model |-> weak_model_name, weak_model |-> None,
     require_model_info |-> require_model_info,
     validate_environment |-> TRUE]

\* A slip that leaves require_model_info at its default for the weak model.
WeakModelArgsDefaultInfo(weak_model_name, require_model_info) ==
    [model |-> weak_model_name, weak_model |-> False,
     require_model_info |-> TRUE, validate_environment |-> TRUE]

\* The arguments of the call at lines 251-255; validate_environment is not
\* passed and takes its default, True.
WeakModelArgs(weak_model_name, require_model_info) ==
    [model |-> weak_model_name, weak_model |-> False,
     require_model_info |-> require_model_info,
     validate_environment |-> TRUE]

\* A slip that drops the test of line 247.
WeakModelIsSelfNoNameTest(weak_model_name, name) == ~Truthy(weak_model_name)

\* Lines 243-249: the model is its own weak model.
WeakModelIsSelf(weak_model_name, name) ==
    ~Truthy(weak_model_name) \/ weak_model_name = name

\* Lines 240-241 of get_weak_model: the provided name overrides the settings.
OverrideWeakName(w, provided_weak_model_name) ==
    IF Truthy(provided_weak_model_name)
    THEN SetAttr(w, "weak_model_name", provided_weak_model_name)
    ELSE w

\* Lines 199-202 and get_weak_model (lines 238-256).
WeakModel(c, cls) ==
    LET f == Top(c)
        w == View(c, cls)
    IN IF f.weak_model = False
       THEN LET r == Advance(c, SetAttr(w, "weak_model_name", None), "done")
            IN Return(r.c, r.cls)
       ELSE LET w1 == OverrideWeakName(w, f.weak_model)
            IN IF WeakModelIsSelf(GetAttr(w1, "weak_model_name"),
                                  GetAttr(w1, "name"))
               THEN LET r == Advance(c, SetAttr(w1, "weak_model", f.self),
                                     "done")
                    IN Return(r.c, r.cls)
               ELSE LET r == Advance(c, w1, "weak_call")
                    IN [c   |-> Construct(r.c,
                                  WeakModelArgs(GetAttr(w1, "weak_model_name"),
                                                f.require_model_info)),
                        cls |-> r.cls]

\* Whether the next step of the call allocates another Model.
Constructs(c, cls) ==
    /\ Top(c).pc = "weak"
    /\ Len(WeakModel(c, cls).c.heap) > Len(c.heap)

(***************************************************************************)
(* The answers of litellm, which the model does not look into: each query  *)
(* draws one.                                                              *)
(***************************************************************************)
\* litellm.validate_environment(model): all keys present, nothing known
\* about the keys (litellm issue 3190), keys missing.
EnvAnswers ==
    { [missing_keys |-> <<>>, keys_in_environment |-> TRUE],
      [missing_keys |-> <<>>, keys_in_environment |-> FALSE],
      [missing_keys |-> <<"API_KEY", "API_BASE">>,
       keys_in_environment |-> FALSE] }

\* litellm.get_model_info(model): an exception, or the info.
InfoAnswers ==
    { [raises |-> TRUE, info |-> {}],
      [raises |-> FALSE, info |-> {}],
      [raises |-> FALSE, info |-> {<<"max_input_tokens", 16385>>}],
      [raises |-> FALSE, info |-> {<<"max_input_tokens", 32768>>}] }

\* At most this many Model objects per call are modelled.
MaxProfiles == 3

RegistryNames == {MODEL_SETTINGS[i].name : i \in 1..Len(MODEL_SETTINGS)}

\* Names outside the registry: the weak models of the presets, names for
\* each pattern rule and for several at once, and names for none.
OtherNames ==
    { "gpt-3.5-turbo", "claude-3-haiku-20240307", "groq/llama3-8b-8192",
      "gpt-4", "openai/gpt-4-0613", "gpt-4-turbo-preview",
      "gpt-4-32k-preview", "llama3-70b-gpt-4-turbo", "llama3-70b",
      "GPT-4-TURBO", "claude-2.1", "claude-3-opus", "mistral-7b" }

ModelNames == RegistryNames \cup OtherNames

\* The weak_model argument: absent, False, empty, the model itself, a
\* preset with a weak model of its own, a name outside the registry.
WeakArgs ==
    [model \in ModelNames |->
        {None, False, "", model, "gpt-4-0613", "gpt-3.5-turbo"}]

\* The calls made while two threads run.
SharedNames == {"gpt-4-0613", "mistral-7b"}
SharedWeakArgs == [model \in SharedNames |-> {None}]
SharedEnvAnswers ==
    {a \in EnvAnswers : a.keys_in_environment \/ a.missing_keys # <<>>}
SharedInfoAnswers ==
    {a \in InfoAnswers :
        a.raises \/ DictGet(a.info, "max_input_tokens", 0) >= 32 * 1024}

ImageIdle ==
    [pc |-> "idle", width |-> 1, height |-> 1, raised |-> "none",
     value |-> 0]

SuggestIdle ==
    [pc |-> "idle", name |-> "", models |-> <<>>, result |-> <<>>]

\* A caller calls Model(model, weak_model, require_model_info,
\* validate_environment).
ModelCall(t, names, weakArgs) ==
    /\ threads[t].outcome = "idle"
    /\ \E model \in names, rmi \in BOOLEAN, ve \in BOOLEAN :
         \E weak \in weakArgs[model] :
            LET a == [model |-> model, weak_model |-> weak,
                      require_model_info |-> rmi,
                      validate_environment |-> ve]
            IN threads' = [threads EXCEPT ![t] =
                   Construct([IdleCall EXCEPT !.outcome = "running",
                                              !.args = a], a)]
    /\ UNCHANGED <<img, classAttrs, registry, sug>>

Running(t, pc) ==
    /\ threads[t].outcome = "running"
    /\ Top(threads[t]).pc = pc

Step(t, r) ==
    /\ threads' = [threads EXCEPT ![t] = r.c]
    /\ classAttrs' = r.cls
    /\ UNCHANGED <<img, registry, sug>>

validate_environment(t, answers) ==
    /\ Running(t, "validate")
    /\ \E ans \in answers :
         Step(t, ValidateEnvironment(threads[t], classAttrs, ans))

get_model_info(t, answers) ==
    /\ Running(t, "model_info")
    /\ \E ans \in answers :
         Step(t, GetModelInfo(threads[t], classAttrs, ans))

configure_model_settings(t) ==
    /\ Running(t, "configure")
    /\ Step(t, Configure(threads[t], classAttrs, registry))

get_weak_model(t) ==
    /\ Running(t, "weak")
    /\ Constructs(threads[t], classAttrs)
          => Len(threads[t].heap) < MaxProfiles
    /\ Step(t, WeakModel(threads[t], classAttrs))

\* The caller is done with the profile, or with the exception.
Discard(t) ==
    /\ threads[t].outcome \notin {"idle", "running"}
    /\ threads' = [threads EXCEPT ![t] = IdleCall]
    /\ UNCHANGED <<img, classAttrs, registry, sug>>

\* One caller at a time.
ResolveInit ==
    /\ threads = [t \in {1} |-> IdleCall]
    /\ classAttrs = ModelClassAttrs
    /\ registry = MODEL_SETTINGS
    /\ img = ImageIdle
    /\ sug = SuggestIdle

ResolveNext ==
    \/ \E t \in {1} : ModelCall(t, ModelNames, WeakArgs)
    \/ \E t \in {1} : validate_environment(t, EnvAnswers)
    \/ \E t \in {1} : get_model_info(t, InfoAnswers)
    \/ \E t \in {1} : configure_model_settings(t)
    \/ \E t \in {1} : get_weak_model(t)
    \/ \E t \in {1} : Discard(t)

ResolveSpec == ResolveInit /\ [][ResolveNext]_vars

\* Two threads, their steps interleaved.
SharedInit ==
    /\ threads = [t \in {1, 2} |-> IdleCall]
    /\ classAttrs = ModelClassAttrs
    /\ registry = MODEL_SETTINGS
    /\ img = ImageIdle
    /\ sug = SuggestIdle

SharedNext ==
    \/ \E t \in {1, 2} : ModelCall(t, SharedNames, SharedWeakArgs)
    \/ \E t \in {1, 2} : validate_environment(t, SharedEnvAnswers)
    \/ \E t \in {1, 2} : get_model_info(t, SharedInfoAnswers)
    \/ \E t \in {1, 2} : configure_model_settings(t)
    \/ \E t \in {1, 2} : get_weak_model(t)
    \/ \E t \in {1, 2} : Discard(t)

SharedSpec == SharedInit /\ [][SharedNext]_vars

\* The same call made alone, in a fresh interpreter, with the answers of
\* log: the context it ends in.
RECURSIVE Replay(_, _, _)
Replay(c, cls, log) ==
    IF c.outcome # "running" THEN c
    ELSE LET pc == Top(c).pc
         IN IF pc \in {"validate", "model_info"} /\ log = <<>> THEN c
            ELSE IF pc = "validate"
            THEN LET r == ValidateEnvironment(c, cls, Head(log).answer)
                 IN Replay(r.c, r.cls, Tail(log))
            ELSE IF pc = "model_info"
            THEN LET r == GetModelInfo(c, cls, Head(log).answer)
                 IN Replay(r.c, r.cls, Tail(log))
            ELSE IF pc = "configure"
            THEN LET r == Configure(c, cls, MODEL_SETTINGS)
                 IN Replay(r.c, r.cls, log)
            ELSE LET r == WeakModel(c, cls)
                 IN Replay(r.c, r.cls, log)

RunAlone(a, log) ==
    Replay(Construct([IdleCall EXCEPT !.outcome = "running", !.args = a], a),
           ModelClassAttrs, log)

(***************************************************************************)
(* fuzzy_match_models and the part of difflib it calls.                    *)
(***************************************************************************)
\* a[i .. i+k-1] = b[j .. j+k-1]
SameBlock(a, i, b, j, k) == SubSeq(a, i, i + k - 1) = SubSeq(b, j, j + k - 1)

\* SequenceMatcher.find_longest_match on a[alo..ahi], b[blo..bhi] (no
\* junk): a longest common block, of those the one starting earliest in a,
\* of those the one starting earliest in b; size 0 when there is none.
LongestMatch(a, alo, ahi, b, blo, bhi) ==
    LET starts(k) == {ij \in (alo..(ahi - k + 1)) \X (blo..(bhi - k + 1)) :
                         SameBlock(a, ij[1], b, ij[2], k)}
        sizes == {k \in 1..Min(ahi - alo + 1, bhi - blo + 1) :
                     starts(k) # {}}
    IN IF sizes = {} THEN [i |-> alo, j |-> blo, size |-> 0]
       ELSE LET k  == CHOOSE s \in sizes : \A s2 \in sizes : s2 <= s
                i  == CHOOSE x \in {ij[1] : ij \in starts(k)} :
                         \A y \in {ij[1] : ij \in starts(k)} : x <= y
                js == {ij[2] : ij \in {s \in starts(k) : s[1] = i}}
                j  == CHOOSE x \in js : \A y \in js : x <= y
            IN [i |-> i, j |-> j, size |-> k]

\* The total size of SequenceMatcher.get_matching_blocks: the longest
\* match, then the same to its left and to its right.
RECURSIVE MatchCount(_, _, _, _, _, _)
MatchCount(a, alo, ahi, b, blo, bhi) ==
    IF alo > ahi \/ blo > bhi THEN 0
    ELSE LET m == LongestMatch(a, alo, ahi, b, blo, bhi)
         IN IF m.size = 0 THEN 0
            ELSE m.size
                 + MatchCount(a, alo, m.i - 1, b, blo, m.j - 1)
                 + MatchCount(a, m.i + m.size, ahi, b, m.j + m.size, bhi)

\* SequenceMatcher.ratio(): 2.0 * matches / length as a fraction, 1.0 for
\* two empty strings.
Ratio(a, b) ==
    IF Len(a) + Len(b) = 0 THEN [num |-> 1, den |-> 1]
    ELSE [num |-> 2 * MatchCount(a, 1, Len(a), b, 1, Len(b)),
          den |-> Len(a) + Len(b)]

\* The characters of the names, in code point order.
Chars == "-./0123456789abcdefghijklmnopqrstuvwxyz"

Ord(ch) == CHOOSE i \in 1..Len(Chars) : SubSeq(Chars, i, i) = ch

\* a < b for strings, as Python compares them.
RECURSIVE StrLess(_, _)
StrLess(a, b) ==
    IF b = "" THEN FALSE
    ELSE IF a = "" THEN TRUE
    ELSE IF SubSeq(a, 1, 1) # SubSeq(b, 1, 1)
    THEN Ord(SubSeq(a, 1, 1)) < Ord(SubSeq(b, 1, 1))
    ELSE StrLess(SubSeq(a, 2, Len(a)), SubSeq(b, 2, Len(b)))

\* (score, x) > (score, x) on the tuples get_close_matches collects.
ScoredGreater(p, q) ==
    \/ p.score.num * q.score.den > q.score.num * p.score.den
    \/ /\ p.score.num * q.score.den = q.score.num * p.score.den
       /\ StrLess(q.x, p.x)

\* sorted(result, reverse=True)
RECURSIVE SortedDescending(_)
SortedDescending(S) ==
    IF S = {} THEN <<>>
    ELSE LET top == CHOOSE p \in S : \A q \in S \ {p} : ScoredGreater(p, q)
         IN <<top>> \o SortedDescending(S \ {top})

\* difflib.get_close_matches(word, possibilities, n, cutoff), the cutoff a
\* fraction: the n best of the possibilities whose ratio reaches the
\* cutoff, best first.  (real_quick_ratio and quick_ratio are upper bounds
\* of ratio and reject nothing ratio accepts.)
GetCloseMatches(word, possibilities, n, cutoff) ==
    LET result == {[score |-> Ratio(possibilities[i], word),
                    x |-> possibilities[i]] : i \in DOMAIN possibilities}
        close  == {p \in result :
                      p.score.num * cutoff.den >= cutoff.num * p.score.den}
        best   == SortedDescending(close)
    IN [i \in 1..Min(n, Len(best)) |-> best[i].x]

\* A slip that drops the exact match of lines 333-334.
FuzzyMatchModelsNoExact(name, models) ==
    LET matching_models == SelectSeq(models, LAMBDA model : Contains(model, name))
    IN IF matching_models # <<>> THEN matching_models
       ELSE GetCloseMatches(name, models, 3, [num |-> 8, den |-> 10])

\* fuzzy_match_models (lines 329-343); models are the keys of
\* litellm.model_cost in iteration order.
FuzzyMatchModels(name, models) ==
    IF \E i \in DOMAIN models : models[i] = name THEN <<name>>
    ELSE LET matching_models ==
                 SelectSeq(models, LAMBDA model : Contains(model, name))
         IN IF matching_models # <<>> THEN matching_models
            ELSE GetCloseMatches(name, models, 3, [num |-> 8, den |-> 10])

\* The catalogs: up to MaxCatalog distinct keys in any order.
MaxCatalog == 5

CatalogKeys == {"gpt-4", "gpt-4o", "gpt-4a", "gpt-4b", "claude-2"}

Catalogs ==
    {s \in UNION {[1..n -> CatalogKeys] : n \in 0..MaxCatalog} :
        \A i, j \in DOMAIN s : i # j => s[i] # s[j]}

\* The names asked for: a key, a part of keys, misspellings, the empty
\* name, a name like nothing.
SuggestNames == {"gpt-4", "gpt", "gpt-4x", "gpt4", "", "llama"}

SuggestInit ==
    /\ \E name \in SuggestNames, models \in Catalogs :
          sug = [pc |-> "start", name |-> name, models |-> models,
                 result |-> <<>>]
    /\ img = ImageIdle
    /\ threads = [t \in {1} |-> IdleCall]
    /\ classAttrs = ModelClassAttrs
    /\ registry = MODEL_SETTINGS

fuzzy_match_models ==
    /\ sug.pc = "start"
    /\ sug' = [sug EXCEPT !.pc = "done",
                          !.result = FuzzyMatchModels(sug.name, sug.models)]
    /\ UNCHANGED <<img, threads, classAttrs, registry>>

SuggestNext == fuzzy_match_models

SuggestSpec == SuggestInit /\ [][SuggestNext]_vars

(***************************************************************************)
(* The image token cost, over images of extreme aspect ratio (one side at  *)
(* most MaxShort) and over the sizes that are multiples of the tile.       *)
(***************************************************************************)
MaxDim == 4100
MaxShort == 3

TileMultiples == {d \in 1..MaxDim : d % 512 = 0}

ImageSizes ==
    ((1..MaxDim) \X (1..MaxShort)) \cup ((1..MaxShort) \X (1..MaxDim))
        \cup (TileMultiples \X TileMultiples)

ImageInit ==
    /\ \E s \in ImageSizes :
          img = [pc |-> "start", width |-> s[1], height |-> s[2],
                 raised |-> "none", value |-> 0]
    /\ threads = [t \in {1} |-> IdleCall]
    /\ classAttrs = ModelClassAttrs
    /\ registry = MODEL_SETTINGS
    /\ sug = SuggestIdle

token_count_for_image ==
    /\ img.pc = "start"
    /\ LET r == TokenCountForImage(img.width, img.height)
       IN img' = [img EXCEPT !.pc = "done", !.raised = r.raised,
                             !.value = r.value]
    /\ UNCHANGED <<threads, classAttrs, registry, sug>>

ImageNext == token_count_for_image

ImageSpec == ImageInit /\ [][ImageNext]_vars

(***************************************************************************)
(* Properties of Model(...).                                               *)
(***************************************************************************)
Finished(c) == c.outcome \notin {"idle", "running"}

\* Attribute a of object id of the call c, as a reader sees it.
Attr(c, id, a) == GetAttr([self |-> c.heap[id], cls |-> classAttrs], a)

\* The preset of a registry name.
Preset(model) ==
    MODEL_SETTINGS[CHOOSE i \in 1..Len(MODEL_SETTINGS) :
                      MODEL_SETTINGS[i].name = model]

\* C1: a call fails with ModelEnvironmentError if and only if
\* validate_environment is true and litellm reports a missing key for the
\* requested model (the first answer of the call); the weak model's keys
\* never cause the failure.
C1_EnvironmentErrorIffRequestedModel ==
    \A t \in DOMAIN threads :
        LET c == threads[t]
        IN Finished(c) =>
              ( c.outcome = "ModelEnvironmentError"
                  <=> /\ c.args.validate_environment
                      /\ c.log[1].answer.missing_keys # <<>> )

\* C3: for a registry name and no weak_model argument, the profile's
\* edit_format, weak_model_name, use_repo_map, send_undo_reply and
\* accepts_images are the preset's.
C3_PresetVerbatim ==
    \A t \in DOMAIN threads :
        LET c == threads[t]
        IN /\ c.outcome = "returned"
           /\ c.args.model \in RegistryNames
           /\ c.args.weak_model = None
           => \A a \in {"edit_format", "weak_model_name", "use_repo_map",
                        "send_undo_reply", "accepts_images"} :
                 Attr(c, 1, a) = Preset(c.args.model)[a]

\* A preset was copied over a name that a pattern rule would have given
\* another edit format.
C3_Witness ==
    /\ threads[1].outcome = "returned"
    /\ threads[1].args.model = "gpt-4-vision-preview"
    /\ threads[1].args.weak_model = None
    /\ Attr(threads[1], 1, "edit_format") = "diff"
    /\ Attr(threads[1], 1, "accepts_images")

\* The rules of the cascade as the specification lists them.
Rule2(model) == Contains(model, "llama3") /\ Contains(model, "70b")
Rule3(model) ==
    \/ Contains(model, "gpt-4-turbo")
    \/ Contains(model, "gpt-4-") /\ Contains(model, "-preview")
Rule4(model) ==
    \/ Contains(model, "gpt-4")
    \/ Contains(model, "claude-2")
    \/ Contains(model, "claude-3-opus")

SettingsWeakName(model) ==
    IF model \in RegistryNames THEN Preset(model).weak_model_name ELSE None

\* The effective weak name: the caller's, if given, else the settings'.
EffectiveWeakName(a) ==
    IF Truthy(a.weak_model) THEN a.weak_model ELSE SettingsWeakName(a.model)

\* C5: after a successful call, weak_model=False leaves weak_model_name and
\* weak_model None; an effective weak name that is empty or the model's own
\* name makes the profile its own weak model; any other makes weak_model a
\* second profile of that name.
C5_WeakModelLink ==
    \A t \in DOMAIN threads :
        LET c == threads[t]
            a == c.args
        IN c.outcome = "returned" =>
              IF a.weak_model = False
              THEN /\ Attr(c, 1, "weak_model_name") = None
                   /\ Attr(c, 1, "weak_model") = NoRef
              ELSE IF \/ ~Truthy(EffectiveWeakName(a))
                      \/ EffectiveWeakName(a) = a.model
              THEN Attr(c, 1, "weak_model") = 1
              ELSE /\ Attr(c, 1, "weak_model") = 2
                   /\ Attr(c, 2, "name") = EffectiveWeakName(a)

\* A preset whose weak model name is its own name is its own weak model.
C5_Witness ==
    /\ threads[1].outcome = "returned"
    /\ threads[1].args.model = "command-r-plus"
    /\ threads[1].args.weak_model = None
    /\ Attr(threads[1], 1, "weak_model") = 1
    /\ Len(threads[1].heap) = 1

\* C6: with require_model_info a failed lookup for the requested model ends
\* the call with NoModelInfo and nothing else escapes; without it the call
\* never ends with NoModelInfo, for the model or its weak model, and a
\* profile whose lookup failed has an empty info.
C6_ModelInfo ==
    \A t \in DOMAIN threads :
        LET c == threads[t]
        IN /\ c.outcome \in {"idle", "running", "returned",
                             "ModelEnvironmentError", "NoModelInfo"}
           /\ /\ Finished(c)
              /\ c.args.require_model_info
              /\ Len(c.log) >= 2
              /\ c.log[2].answer.raises
              => c.outcome = "NoModelInfo"
           /\ ~c.args.require_model_info => c.outcome # "NoModelInfo"
           /\ c.outcome = "returned" =>
                 \A k \in 1..Len(c.heap) :
                     c.log[2 * k].answer.raises => Attr(c, k, "info") = {}

\* Both lookups failed, for the model and for its weak model, and the call
\* returned two profiles with empty info.
C6_Witness ==
    /\ threads[1].outcome = "returned"
    /\ ~threads[1].args.require_model_info
    /\ Len(threads[1].heap) = 2
    /\ threads[1].log[2].answer.raises
    /\ threads[1].log[4].answer.raises
    /\ Attr(threads[1], 2, "info") = {}

\* Thread t's call can take its next step: the first three steps of a
\* constructor wait for nothing, the fourth may have to construct a profile.
CallStep(t) ==
    LET pc == Top(threads[t]).pc
    IN /\ threads[t].stack # <<>>
       /\ pc \in {"validate", "model_info", "configure", "weak"}
       /\ pc = "weak" => ENABLED get_weak_model(t)

\* C9: a call allocates at most two profiles, in at most two nested
\* frames, is never stuck and is over within the four steps of each; the
\* weak profile has no weak model and no weak model name.
C9_DepthOne ==
    \A t \in DOMAIN threads :
        LET c == threads[t]
        IN /\ Len(c.heap) <= 2
           /\ Len(c.stack) <= 2
           /\ c.steps <= 8
           /\ c.outcome = "running" => CallStep(t)
           /\ c.outcome = "returned" /\ Len(c.heap) = 2
              => /\ Attr(c, 2, "weak_model") = NoRef
                 /\ Attr(c, 2, "weak_model_name") = None

\* The weak model asked for is a preset that names a weak model of its own.
C9_Witness ==
    /\ threads[1].outcome = "returned"
    /\ threads[1].args.model = "mistral-7b"
    /\ threads[1].args.weak_model = "gpt-4-0613"
    /\ SettingsWeakName("gpt-4-0613") = "gpt-3.5-turbo"
    /\ Len(threads[1].heap) = 2
    /\ Attr(threads[1], 2, "name") = "gpt-4-0613"

\* C10: no call changes the class attributes or the registry, and each
\* call ends as it would have ended alone with the same answers.
C10_NoSharedState ==
    /\ classAttrs = ModelClassAttrs
    /\ registry = MODEL_SETTINGS
    /\ \A t \in DOMAIN threads :
          Finished(threads[t])
             => threads[t] = RunAlone(threads[t].args, threads[t].log)

\* Two calls ran at once: one returned a preset with its weak model, the
\* other failed.
C10_Witness ==
    /\ threads[1].outcome = "returned"
    /\ Len(threads[1].heap) = 2
    /\ threads[2].outcome = "NoModelInfo"
    /\ threads[2].args.model = "mistral-7b"

(***************************************************************************)
(* Properties of token_count_for_image and fuzzy_match_models.             *)
(***************************************************************************)
\* C2: for positive width and height the token cost is computed and
\* nothing is raised.
C2_ImageCostNeverFails == img.pc = "done" => img.raised = "none"

\* The formula of the specification in exact arithmetic: x scaled by
\* num/den and truncated.
ScaledExactly(x, num, den) == (x * num) \div den

FormulaFit(width, height) ==
    IF Max(width, height) > 2048
    THEN [width  |-> ScaledExactly(width, 2048, Max(width, height)),
          height |-> ScaledExactly(height, 2048, Max(width, height))]
    ELSE [width |-> width, height |-> height]

FormulaDefined(width, height) ==
    Min(FormulaFit(width, height).width, FormulaFit(width, height).height) > 0

FormulaCost(width, height) ==
    LET fit   == FormulaFit(width, height)
        short == Min(fit.width, fit.height)
        w2    == ScaledExactly(fit.width, 768, short)
        h2    == ScaledExactly(fit.height, 768, short)
    IN ((w2 + 511) \div 512) * ((h2 + 511) \div 512) * 170 + 85

\* C7: wherever the formula is defined, the token cost is tiles*170+85 for
\* the dimensions scaled by 2048/max when max > 2048, then by 768/min, each
\* truncated, and tiles = ceil(width/512)*ceil(height/512).
C7_ImageCostIsFormula ==
    img.pc = "done" /\ FormulaDefined(img.width, img.height)
       => /\ img.raised = "none"
          /\ img.value = FormulaCost(img.width, img.height)

\* C8: an exact key gives just the name; else the keys containing the name,
\* in catalog order, if there are any; else at most 3 keys; and nothing
\* but catalog keys, ever.
C8_Suggest ==
    sug.pc = "done" =>
        LET keys == {sug.models[i] : i \in DOMAIN sug.models}
            has(model) == Contains(model, sug.name)
        IN /\ \A i \in DOMAIN sug.result : sug.result[i] \in keys
           /\ sug.name \in keys => sug.result = <<sug.name>>
           /\ sug.name \notin keys /\ (\E k \in keys : has(k))
                 => sug.result = SelectSeq(sug.models, has)
           /\ sug.name \notin keys /\ ~(\E k \in keys : has(k))
                 => Len(sug.result) <= 3

\* A misspelling close to four keys and part of none: three are returned.
C8_Witness ==
    /\ sug.pc = "done"
    /\ sug.name = "gpt-4x"
    /\ Cardinality({i \in DOMAIN sug.models :
          LET r == Ratio(sug.models[i], sug.name)
          IN r.num * 10 >= 8 * r.den}) = 4
    /\ Len(sug.result) = 3

====
